---- MODULE Spec2Model ----
(***************************************************************************)
(* Model of the TrackDispatcher of the rx-player                           *)
(* (src/core/api/track_management/track_dispatcher.ts): the re-entrant     *)
(* start / updateTrack / dispose operations, the locked-Representations    *)
(* sub-channel and its recompute logic (updateReferenceIfNeeded).          *)
(*                                                                         *)
(* Calls nest through callbacks the Dispatcher invokes synchronously       *)
(* (listeners of its own events, subscribers of the outward Reference), so *)
(* the model keeps a call stack: the top frame is the handler that is      *)
(* presently waiting for a callback it invoked to return.  Every step      *)
(* between two such suspension points is one atomic action.                *)
(***************************************************************************)
EXTENDS Integers, Sequences, FiniteSets, TLC

\* ------------------------------------------------------------------------
\* Bounds of the model
\* ------------------------------------------------------------------------
MaxRefs == 2      \* sub-channels (non-null start/updateTrack calls) per run
MaxDepth == 2     \* frames on the call stack
MaxChain == 3     \* Dispatcher calls inside one top-level chain
MaxEnv == 2       \* Manifest events and lock updates per run
MaxExtends == 2   \* ids in one style's extendsStyles
MaxInferReps == 2 \* Representations given to inferAdaptationType

\* ------------------------------------------------------------------------
\* The content: Representations, Adaptations, track preferences
\* ------------------------------------------------------------------------
Reps == {"r1", "r2", "r3", "r4"}

\* r1 and r3 share a bitrate; the Adaptation lists r1 before the lower r2
bitrate(r) == CASE r = "r1" -> 2 [] r = "r2" -> 1 [] r = "r3" -> 2 [] OTHER -> 1

Adaptations == {"a1", "a2"}

AdaptationRepresentations(a) ==
  IF a = "a1" THEN <<"r1", "r2", "r3">> ELSE <<"r4">>

\* The playability patterns the Manifest goes through
PlayableChoices ==
  { [r \in Reps |-> r \in S] :
      S \in {Reps, {}, {"r4"}, {"r2", "r4"}} }

Prefs == {"pA", "pB"}
NullPref == "null"

PrefAdaptation(p) == IF p = "pA" THEN "a1" ELSE "a2"
PrefSwitchingMode(p) == IF p = "pA" THEN "seamless" ELSE "direct"
PrefResumingPosition(p) == IF p = "pA" THEN "10" ELSE "undefined"

NoLock == [locked |-> FALSE, representations |-> <<>>, switchingMode |-> "none"]

\* Only the lock of LockablePrefs is ever updated
LockablePrefs == {"pA"}
LockLists == {<<"r1">>, <<"r3", "r1">>, <<"r3", "r2">>}
LockModes == {"direct"}
ChainLocks == {NoLock, [locked |-> TRUE, representations |-> <<"r1">>,
                        switchingMode |-> "direct"]}
LockChoices ==
  {NoLock} \cup { [locked |-> TRUE, representations |-> l, switchingMode |-> m] :
                  l \in LockLists, m \in LockModes }

\* Locks on a single Representation, and no lock
SingleLocks ==
  {NoLock} \cup { [locked |-> TRUE, representations |-> <<r>>, switchingMode |-> m] :
                  r \in {"r1", "r2"}, m \in {"direct", "lazy"} }

Subscribers == {1, 2}      \* subscribers of the outward Reference, in subscription order
Listeners == {"l1"}        \* listeners of the Dispatcher's own events

\* ------------------------------------------------------------------------
\* State
\* ------------------------------------------------------------------------
VARIABLES
  playable,          \* Representation.isPlayable(), per Representation
  isSupported,       \* Adaptation.isSupported, per Adaptation
  lockRef,           \* value of each preference's lockedRepresentations Reference
  lastEmitted,       \* TrackDispatcher._lastEmitted
  updateToken,       \* TrackDispatcher._updateToken
  canceller,         \* TrackDispatcher._canceller: [id, isCancelled, cleanups]
  subs,              \* the Representations-Choice References built so far
  manifestListeners, \* sub-channels whose updateReferenceIfNeeded listens to the Manifest
  emitterListeners,  \* number of listeners registered on the Dispatcher's events
  adaptationRef,     \* the outward Reference: [value, finished, subscribers]
  stack,             \* call stack: handlers waiting for a callback to return
  started,           \* start() has been called
  disposed,          \* dispose() has been called
  chain,             \* history: Dispatcher calls of the current top-level chain
  outLog,            \* history: values published on the outward Reference in the chain
  received,          \* history: values each outward subscriber received in the chain
  recLog,            \* history: recomputes run in the chain
  nullRun,           \* history: the trailing run of updateTrack(null) calls
  calledAfterDispose, \* history: start/updateTrack was called after dispose()
  cancelLog,         \* history: the cancel() calls made in the chain
  lateOnUpdate,      \* history: onUpdate() was called on the finished outward Reference
  envSteps,          \* number of Manifest events and lock updates so far
  styles,            \* resolveStylesInheritance: the styles array, mutated in place
  stylesInput,       \* history: the styles array as it was given
  browsedIndexes,    \* resolveStylesInheritance: recursivelyBrowsedIndexes
  resolveStack,      \* resolveStyleInheritance calls in progress: [index, j]
  styleIndex,        \* resolveStylesInheritance: the loop variable i
  resolveSteps,      \* history: loop iterations and returns made so far
  inferArgs,         \* inferAdaptationType: its arguments
  inferResult        \* inferAdaptationType: [returned, type]

dispatcherVars ==
  <<playable, isSupported, lockRef, lastEmitted, updateToken, canceller,
    subs, manifestListeners, emitterListeners, adaptationRef, stack,
    started, disposed, chain, outLog, received, recLog, nullRun,
    calledAfterDispose, cancelLog, lateOnUpdate, envSteps>>

parserVars ==
  <<styles, stylesInput, browsedIndexes, resolveStack, styleIndex,
    resolveSteps, inferArgs, inferResult>>

vars == <<playable, isSupported, lockRef, lastEmitted, updateToken, canceller,
          subs, manifestListeners, emitterListeners, adaptationRef, stack,
          started, disposed, chain, outLog, received, recLog, nullRun,
          calledAfterDispose, cancelLog, lateOnUpdate, envSteps,
          styles, stylesInput, browsedIndexes, resolveStack, styleIndex,
          resolveSteps, inferArgs, inferResult>>

\* The whole state as one record, so that a handler is a function on it.
World ==
  [playable |-> playable, isSupported |-> isSupported, lockRef |-> lockRef,
   lastEmitted |-> lastEmitted, updateToken |-> updateToken,
   canceller |-> canceller, subs |-> subs,
   manifestListeners |-> manifestListeners,
   emitterListeners |-> emitterListeners, adaptationRef |-> adaptationRef,
   stack |-> stack, started |-> started, disposed |-> disposed,
   chain |-> chain, outLog |-> outLog, received |-> received,
   recLog |-> recLog, nullRun |-> nullRun,
   calledAfterDispose |-> calledAfterDispose, cancelLog |-> cancelLog,
   lateOnUpdate |-> lateOnUpdate, envSteps |-> envSteps]

Assign(w) ==
  /\ playable' = w.playable
  /\ isSupported' = w.isSupported
  /\ lockRef' = w.lockRef
  /\ lastEmitted' = w.lastEmitted
  /\ updateToken' = w.updateToken
  /\ canceller' = w.canceller
  /\ subs' = w.subs
  /\ manifestListeners' = w.manifestListeners
  /\ emitterListeners' = w.emitterListeners
  /\ adaptationRef' = w.adaptationRef
  /\ stack' = w.stack
  /\ started' = w.started
  /\ disposed' = w.disposed
  /\ chain' = w.chain
  /\ outLog' = w.outLog
  /\ received' = w.received
  /\ recLog' = w.recLog
  /\ nullRun' = w.nullRun
  /\ calledAfterDispose' = w.calledAfterDispose
  /\ cancelLog' = w.cancelLog
  /\ lateOnUpdate' = w.lateOnUpdate
  /\ envSteps' = w.envSteps
  /\ UNCHANGED parserVars

\* ------------------------------------------------------------------------
\* Values
\* ------------------------------------------------------------------------
UndefinedEmitted == [state |-> "undefined", adaptation |-> "none", switchingMode |-> "none"]
NullEmitted == [state |-> "null", adaptation |-> "none", switchingMode |-> "none"]
SetEmitted(p) ==
  [state |-> "set", adaptation |-> PrefAdaptation(p),
   switchingMode |-> PrefSwitchingMode(p)]

UndefinedChoice ==
  [state |-> "undefined", adaptation |-> "none", switchingMode |-> "none",
   representations |-> 0, relativeResumingPosition |-> "undefined"]
NullChoice ==
  [state |-> "null", adaptation |-> "none", switchingMode |-> "none",
   representations |-> 0, relativeResumingPosition |-> "undefined"]
AdaptationChoice(p, ref, resume) ==
  [state |-> "set", adaptation |-> PrefAdaptation(p),
   switchingMode |-> PrefSwitchingMode(p),
   representations |-> ref, relativeResumingPosition |-> resume]

InitialChoice == [representations |-> <<>>, switchingMode |-> "lazy"]

\* new TaskCanceller(): a live signal with nothing registered
FreshCanceller(id) == [id |-> id, isCancelled |-> FALSE, cleanups |-> <<>>]

NoFrameFields == [op |-> "none", pref |-> NullPref, sub |-> 0, cid |-> 0, queue |-> <<>>]

\* ------------------------------------------------------------------------
\* Manifest side: playability
\* ------------------------------------------------------------------------
RECURSIVE FilterPlayable(_, _)
FilterPlayable(pl, reps) ==
  IF reps = <<>> THEN <<>>
  ELSE IF pl[Head(reps)]
       THEN <<Head(reps)>> \o FilterPlayable(pl, Tail(reps))
       ELSE FilterPlayable(pl, Tail(reps))

getPlayableRepresentations(pl, a) == FilterPlayable(pl, AdaptationRepresentations(a))

\* ------------------------------------------------------------------------
\* Array.prototype.sort((ra, rb) => ra.bitrate - rb.bitrate): a stable sort
\* ------------------------------------------------------------------------
\* Mutant: a sort that puts a Representation before those of equal bitrate
RECURSIVE InsertByBitrateUnstable(_, _)
InsertByBitrateUnstable(sorted, r) ==
  IF sorted = <<>> THEN <<r>>
  ELSE IF bitrate(Head(sorted)) - bitrate(r) < 0
       THEN <<Head(sorted)>> \o InsertByBitrateUnstable(Tail(sorted), r)
       ELSE <<r>> \o sorted

RECURSIVE InsertByBitrate(_, _)
InsertByBitrate(sorted, r) ==
  IF sorted = <<>> THEN <<r>>
  ELSE IF bitrate(Head(sorted)) - bitrate(r) <= 0
       THEN <<Head(sorted)>> \o InsertByBitrate(Tail(sorted), r)
       ELSE <<r>> \o sorted

RECURSIVE SortByBitrate(_)
SortByBitrate(reps) ==
  IF reps = <<>> THEN <<>>
  ELSE InsertByBitrate(SortByBitrate(SubSeq(reps, 1, Len(reps) - 1)), reps[Len(reps)])

\* Mutant: the value is published without comparing it to the current one
HasChangedAlways(sortedReps, oldReps) == TRUE

\* The change detection of updateReferenceIfNeeded
HasChanged(sortedReps, oldReps) ==
  \/ Len(sortedReps) # Len(oldReps)
  \/ \E i \in 1..Len(sortedReps) : oldReps[i] # sortedReps[i]

\* ------------------------------------------------------------------------
\* TaskCanceller
\* ------------------------------------------------------------------------
\* The clean-ups registered on the signal: removeListeners (line 177) and
\* the un-subscription of the lock Reference (clearSignal, line 179)
Cleanup(kind, sub) == [kind |-> kind, sub |-> sub]

RunCleanup(w, c) ==
  IF c.kind = "removeListeners"
  THEN [w EXCEPT !.manifestListeners =
                    SelectSeq(w.manifestListeners, LAMBDA i : i # c.sub)]
  ELSE [w EXCEPT !.subs[c.sub].lockSub = FALSE]

RECURSIVE RunCleanups(_, _)
RunCleanups(w, cs) ==
  IF cs = <<>> THEN w
  ELSE RunCleanups(RunCleanup(w, Head(cs)), Tail(cs))

\* Mutant: the clean-ups are run last registered first
CleanupsToRunReversed(c) ==
  IF c.isCancelled THEN <<>>
  ELSE [k \in 1..Len(c.cleanups) |-> c.cleanups[Len(c.cleanups) + 1 - k]]

\* The clean-ups a cancel() runs: the registry, in registration order, when
\* the signal is live; none when it was cancelled already
CleanupsToRun(c) == IF c.isCancelled THEN <<>> ELSE c.cleanups

\* cancel(): the signal becomes cancelled, the registered clean-ups are run
\* and the registry is cleared
Cancel(w) ==
  LET run == CleanupsToRun(w.canceller)
      entry == [signal |-> w.canceller.id,
                wasCancelled |-> w.canceller.isCancelled,
                registered |-> w.canceller.cleanups,
                ran |-> run]
      w1 == RunCleanups(w, run)
  IN [w1 EXCEPT !.canceller.isCancelled = TRUE,
                !.canceller.cleanups = <<>>,
                !.cancelLog = Append(w.cancelLog, entry)]

\* Mutant: register() queues the clean-up whatever the state of the signal
RegisterAlwaysQueues(w, c) ==
  [w EXCEPT !.canceller.cleanups = Append(w.canceller.cleanups, c)]

\* signal.register(c): c is run at once when the signal is cancelled already
Register(w, c) ==
  IF w.canceller.isCancelled THEN RunCleanup(w, c)
  ELSE [w EXCEPT !.canceller.cleanups = Append(w.canceller.cleanups, c)]

\* this._canceller = new TaskCanceller()
NewCanceller(w) ==
  [w EXCEPT !.canceller = FreshCanceller(w.canceller.id + 1)]

\* Mutant: the canceller is replaced without having been cancelled
ReplaceCancellerNoCancel(w) == NewCanceller(w)

\* Lines 132-135 and 141-142: cancel the canceller, then replace it
ReplaceCanceller(w) == NewCanceller(Cancel(w))

\* ------------------------------------------------------------------------
\* Call stack
\* ------------------------------------------------------------------------
Frame(kind, phase, f, cur, n, val) ==
  [kind |-> kind, phase |-> phase, op |-> f.op, pref |-> f.pref, sub |-> f.sub,
   cid |-> f.cid, queue |-> f.queue, cur |-> cur, n |-> n, val |-> val]

Push(w, frame) == [w EXCEPT !.stack = Append(w.stack, frame)]
Pop(w) == [w EXCEPT !.stack = SubSeq(w.stack, 1, Len(w.stack) - 1)]
Top(w) == w.stack[Len(w.stack)]

\* ------------------------------------------------------------------------
\* updateReferenceIfNeeded
\* ------------------------------------------------------------------------
\* Mutant: a lock does not narrow the candidates
PlayableRepresentationsOfAdaptation(pl, a, repSettings) ==
  getPlayableRepresentations(pl, a)

\* Lines 195-203: the candidate Representations
PlayableRepresentations(pl, a, repSettings) ==
  IF ~repSettings.locked
  THEN getPlayableRepresentations(pl, a)
  ELSE FilterPlayable(pl, repSettings.representations)

\* Lines 199 and 202
RepresentationsSwitchingMode(repSettings) ==
  IF ~repSettings.locked THEN "lazy" ELSE repSettings.switchingMode

\* Mutant: the early return of line 204-207 is missing
NoPlayableLockedIgnored(repSettings, cands) == FALSE

\* Line 204: a lock none of whose Representations is playable
NoPlayableLocked(repSettings, cands) == repSettings.locked /\ Len(cands) = 0

\* Mutant: the emptiness check of line 209 never holds
NoPlayableStrict(cands) == Len(cands) < 0

\* Line 209
NoPlayable(cands) == Len(cands) <= 0

\* Mutant: every empty candidate set is reported as an unplayable lock
RecomputeEventLockedOnly(repSettings, cands) ==
  IF Len(cands) = 0 THEN "noPlayableLockedRepresentation" ELSE "none"

\* The event the recompute triggers, "none" if it triggers nothing
RecomputeEvent(repSettings, cands) ==
  IF NoPlayableLocked(repSettings, cands) THEN "noPlayableLockedRepresentation"
  ELSE IF NoPlayable(cands) THEN "noPlayableRepresentation"
  ELSE "none"

\* One run of updateReferenceIfNeeded for sub-channel id, up to the point
\* where it either returns or calls self.trigger(event).
Recompute(w, id, cause) ==
  LET sub == w.subs[id]
      a == PrefAdaptation(sub.pref)
      repSettings == w.lockRef[sub.pref]
      cands == PlayableRepresentations(w.playable, a, repSettings)
      switchingMode == RepresentationsSwitchingMode(repSettings)
      event == RecomputeEvent(repSettings, cands)
      sortedReps == SortByBitrate(cands)
      publish == event = "none" /\ HasChanged(sortedReps, sub.value.representations)
      newValue == IF publish
                  THEN [representations |-> sortedReps, switchingMode |-> switchingMode]
                  ELSE sub.value
      newSupported == IF event = "noPlayableRepresentation"
                      THEN [w.isSupported EXCEPT ![a] = FALSE]
                      ELSE w.isSupported
      rec == [sub |-> id, cause |-> cause, adaptation |-> a,
              lock |-> repSettings, playable |-> w.playable, cands |-> cands,
              before |-> sub.value, after |-> newValue, published |-> publish,
              event |-> event,
              events |-> IF event = "none" THEN <<>> ELSE <<event>>,
              supportedBefore |-> w.isSupported[a],
              supportedAfter |-> newSupported[a]]
  IN [w |-> [w EXCEPT !.isSupported = newSupported,
                      !.subs[id].value = newValue,
                      !.recLog = Append(w.recLog, rec)],
      event |-> event]

\* ------------------------------------------------------------------------
\* The outward Reference (this._adaptationRef)
\* ------------------------------------------------------------------------
LiveAfter(w, k) == { s \in w.adaptationRef.subscribers : s > k }
Min(S) == CHOOSE x \in S : \A y \in S : x <= y

Deliver(w, s, v) == [w EXCEPT !.received[s] = Append(w.received[s], v)]

\* _adaptationRef.setValue(v), up to the invocation of the first subscriber
SetOutward(w, v, f) ==
  IF w.adaptationRef.finished THEN w
  ELSE LET w1 == [w EXCEPT !.adaptationRef.value = v,
                           !.outLog = Append(w.outLog, v)]
           live == LiveAfter(w1, 0)
       IN IF live = {} THEN w1
          ELSE Push(Deliver(w1, Min(live), v),
                    Frame("call", "publish", f, Min(live), 0, v))

\* Mutant: onUpdate() registers the callback on a finished Reference too
OnUpdateOutwardAlways(w, s, emitCurrentValue) ==
  LET w1 == [w EXCEPT !.adaptationRef.subscribers = @ \cup {s},
                      !.lateOnUpdate = @ \/ w.adaptationRef.finished]
  IN IF emitCurrentValue THEN Deliver(w1, s, w.adaptationRef.value) ELSE w1

\* _adaptationRef.onUpdate(callback of s, {emitCurrentValue}): a no-op on a
\* finished Reference
OnUpdateOutward(w, s, emitCurrentValue) ==
  IF w.adaptationRef.finished THEN [w EXCEPT !.lateOnUpdate = TRUE]
  ELSE LET w1 == [w EXCEPT !.adaptationRef.subscribers = @ \cup {s}]
       IN IF emitCurrentValue THEN Deliver(w1, s, w.adaptationRef.value)
          ELSE w1

\* Marks the calls presently suspended in their sub-channel construction as
\* having had a nested call commit meanwhile.
MarkSuperseded(w) ==
  LET cids == { w.stack[i].cid : i \in { j \in DOMAIN w.stack :
                   w.stack[j].kind = "call" /\ w.stack[j].phase = "construct" } }
  IN [w EXCEPT !.chain = [c \in DOMAIN w.chain |->
                            IF c \in cids
                            THEN [w.chain[c] EXCEPT !.superseded = TRUE]
                            ELSE w.chain[c]]]

\* ------------------------------------------------------------------------
\* start / updateTrack
\* ------------------------------------------------------------------------
\* Mutant: the commit is made without looking at the token
TokenIgnored(w) == TRUE

\* Lines 107 and 144: the re-entrancy check made once the sub-channel is built
TokenSurvives(w) == w.updateToken

\* Mutant: updateTrack(null) never takes the early return of line 128-130
AlreadyNullIgnored(w) == FALSE

\* Mutant: `== null` for `=== null`, which undefined satisfies too
AlreadyNullLoose(w) == w.lastEmitted.state \in {"null", "undefined"}

\* Line 128: updateTrack(null) when null was already emitted
AlreadyNull(w) == w.lastEmitted.state = "null"

\* Mutant: start forwards the preference's relativeResumingPosition too
PublishedResumingPositionVerbatim(op, p) == PrefResumingPosition(p)

\* relativeResumingPosition of the published Adaptation Choice (lines 117, 152)
PublishedResumingPosition(op, p) ==
  IF op = "start" THEN "undefined" ELSE PrefResumingPosition(p)

\* Lines 110-118 and 147-152: the commit, made after the sub-channel is built
Commit(w, f) ==
  IF ~TokenSurvives(w) THEN w
  ELSE LET w1 == MarkSuperseded(
                   [w EXCEPT !.lastEmitted = SetEmitted(f.pref),
                             !.updateToken = FALSE,
                             !.chain[f.cid].committed = TRUE,
                             !.nullRun = <<>>])
       IN SetOutward(w1,
                     AdaptationChoice(f.pref, f.sub,
                                      PublishedResumingPosition(f.op, f.pref)),
                     f)

\* Mutant: both listeners are added to the same Manifest event
AddManifestListenersSameEvent(listeners, id) == Append(Append(listeners, id), id)

\* Lines 175-176: updateReferenceIfNeeded listens to decipherabilityUpdate
\* and to manifestUpdate, once each
AddManifestListeners(listeners, id) == Append(listeners, id)

\* Mutant: the lock subscription is made with emitCurrentValue: true
EmitCurrentValueTrue == TRUE

\* Line 180: the option given to lockedRepresentations.onUpdate
EmitCurrentValue == FALSE

\* Lines 168-181: _constructLockedRepresentationsReference up to the
\* initial updateReferenceIfNeeded() call; onUpdate invokes the callback
\* at registration only when asked to emit the current value
Construct(w, p) ==
  LET id == Len(w.subs) + 1
      w1 == [w EXCEPT
              !.subs = Append(w.subs, [pref |-> p, value |-> InitialChoice,
                                       signal |-> w.canceller.id,
                                       lockSub |-> FALSE]),
              !.manifestListeners = AddManifestListeners(w.manifestListeners, id)]
      w2 == Register(w1, Cleanup("removeListeners", id))
      w3 == Register([w2 EXCEPT !.subs[id].lockSub = TRUE],
                     Cleanup("unlisten", id))
  IN IF EmitCurrentValue THEN Recompute(w3, id, "onUpdate").w ELSE w3

\* start(p) / updateTrack(p) with a non-null preference, up to the first
\* callback it has to wait for (or to its return)
CallNonNull(w, op, p, cid) ==
  LET w1 == IF op = "updateTrack" THEN ReplaceCanceller(w) ELSE w
      id == Len(w1.subs) + 1
      r == Recompute(Construct(w1, p), id, "construct")
      f == [op |-> op, pref |-> p, sub |-> id, cid |-> cid, queue |-> <<>>]
  IN IF r.event # "none" /\ r.w.emitterListeners > 0
     THEN Push(r.w, Frame("call", "construct", f, 1, r.w.emitterListeners,
                          UndefinedChoice))
     ELSE Commit(r.w, f)

\* Mutant: start(null) without the snapshot write of line 101
StartNullNoSnapshot(w, cid) ==
  LET f == [op |-> "start", pref |-> NullPref, sub |-> 0, cid |-> cid, queue |-> <<>>]
      w1 == MarkSuperseded([w EXCEPT !.updateToken = FALSE,
                                     !.chain[cid].committed = TRUE])
  IN SetOutward(w1, NullChoice, f)

\* Lines 100-105: start(null)
StartNull(w, cid) ==
  LET f == [op |-> "start", pref |-> NullPref, sub |-> 0, cid |-> cid, queue |-> <<>>]
      w1 == MarkSuperseded([w EXCEPT !.lastEmitted = NullEmitted,
                                     !.updateToken = FALSE,
                                     !.chain[cid].committed = TRUE])
  IN SetOutward(w1, NullChoice, f)

\* Lines 127-139: updateTrack(null)
UpdateTrackNull(w, cid) ==
  LET f == [op |-> "updateTrack", pref |-> NullPref, sub |-> 0, cid |-> cid,
            queue |-> <<>>]
  IN IF AlreadyNull(w) THEN w
     ELSE LET w1 == ReplaceCanceller([w EXCEPT !.updateToken = FALSE])
              w2 == MarkSuperseded([w1 EXCEPT !.lastEmitted = NullEmitted,
                                              !.chain[cid].committed = TRUE])
          IN SetOutward(w2, NullChoice, f)

\* A Dispatcher call: its bookkeeping in the history, then the handler
EnterCall(w, op, p) ==
  LET entry == [op |-> op, pref |-> p, depth |-> Len(w.stack),
                parent |-> IF w.stack = <<>> THEN 0 ELSE Top(w).cid,
                via |-> IF w.stack = <<>> THEN "top" ELSE Top(w).phase,
                committed |-> FALSE, superseded |-> FALSE,
                sub |-> IF p = NullPref THEN 0 ELSE Len(w.subs) + 1,
                emittedBefore |-> w.lastEmitted,
                cancellerBefore |-> w.canceller,
                outwardBefore |-> w.adaptationRef.value]
      w1 == [w EXCEPT !.updateToken = TRUE,
                      !.started = TRUE,
                      !.calledAfterDispose = w.calledAfterDispose \/ w.disposed,
                      !.chain = Append(w.chain, entry),
                      !.nullRun = IF op = "updateTrack" /\ p = NullPref
                                  THEN w.nullRun ELSE <<>>]
      cid == Len(w1.chain)
      w2 == IF p # NullPref THEN CallNonNull(w1, op, p, cid)
            ELSE IF op = "start" THEN StartNull(w1, cid)
            ELSE UpdateTrackNull(w1, cid)
  IN IF op = "updateTrack" /\ p = NullPref
     THEN [w2 EXCEPT !.nullRun =
             SubSeq(w.nullRun, IF Len(w.nullRun) >= 2 THEN 2 ELSE 1, Len(w.nullRun))
             \o << [wasNull |-> w.lastEmitted.state = "null",
                    published |-> Len(w2.outLog) > Len(w1.outLog)] >>]
     ELSE w2

\* ------------------------------------------------------------------------
\* dispose (lines 241-245)
\* ------------------------------------------------------------------------
\* Mutant: dispose() without the cancel() of line 243
DoDisposeNoCancel(w) ==
  [w EXCEPT !.emitterListeners = 0,
            !.adaptationRef.finished = TRUE,
            !.adaptationRef.subscribers = {},
            !.disposed = TRUE]

\* Mutant: dispose() without the finish() of line 244
DoDisposeNoFinish(w) ==
  LET w1 == Cancel([w EXCEPT !.emitterListeners = 0])
  IN [w1 EXCEPT !.disposed = TRUE]

DoDispose(w) ==
  LET w1 == Cancel([w EXCEPT !.emitterListeners = 0])
  IN [w1 EXCEPT !.adaptationRef.finished = TRUE,
                !.adaptationRef.subscribers = {},
                !.disposed = TRUE]

\* ------------------------------------------------------------------------
\* Manifest events and lock updates: the listeners to run, in order
\* ------------------------------------------------------------------------
RECURSIVE ProcessQueue(_, _, _)
ProcessQueue(w, queue, cause) ==
  IF queue = <<>> THEN w
  ELSE IF cause = "lockUpdate" /\ ~w.subs[Head(queue)].lockSub
       THEN ProcessQueue(w, Tail(queue), cause)
       ELSE LET r == Recompute(w, Head(queue), cause)
                f == [op |-> cause, pref |-> NullPref, sub |-> Head(queue),
                      cid |-> 0, queue |-> Tail(queue)]
            IN IF r.event # "none" /\ r.w.emitterListeners > 0
               THEN Push(r.w, Frame("event", "trigger", f, 1,
                                    r.w.emitterListeners, UndefinedChoice))
               ELSE ProcessQueue(r.w, Tail(queue), cause)

\* The callback the top frame was waiting for returns: the handler resumes
Resume(w) ==
  LET f == Top(w)
      ff == [op |-> f.op, pref |-> f.pref, sub |-> f.sub, cid |-> f.cid,
             queue |-> f.queue]
  IN IF f.phase = "publish"
     THEN LET live == LiveAfter(w, f.cur)
          IN IF live = {} THEN Pop(w)
             ELSE Deliver([w EXCEPT !.stack[Len(w.stack)].cur = Min(live)],
                          Min(live), f.val)
     ELSE IF f.cur < f.n
          THEN [w EXCEPT !.stack[Len(w.stack)].cur = f.cur + 1]
          ELSE IF f.kind = "call" THEN Commit(Pop(w), ff)
               ELSE ProcessQueue(Pop(w), f.queue, f.op)

\* The history of a chain is reset when a new top-level operation begins
NewChain(w) ==
  [w EXCEPT !.chain = <<>>, !.outLog = <<>>, !.recLog = <<>>,
            !.cancelLog = <<>>,
            !.received = [s \in Subscribers |-> <<>>]]

LockSubscribers(w, p) ==
  SelectSeq([i \in DOMAIN w.subs |-> i],
            LAMBDA i : w.subs[i].pref = p /\ w.subs[i].lockSub)

\* ------------------------------------------------------------------------
\* Actions
\* ------------------------------------------------------------------------
\* The TTML and Manifest parsers are not running
ParsersIdle ==
  /\ styles = <<>>
  /\ stylesInput = <<>>
  /\ browsedIndexes = <<>>
  /\ resolveStack = <<>>
  /\ styleIndex = 1
  /\ resolveSteps = 0
  /\ inferArgs = <<>>
  /\ inferResult = [returned |-> FALSE, type |-> "undefined"]

\* The Dispatcher as its constructor leaves it
Constructed ==
  /\ playable = [r \in Reps |-> TRUE]
  /\ isSupported = [a \in Adaptations |-> TRUE]
  /\ lockRef = [p \in Prefs |-> NoLock]
  /\ lastEmitted = UndefinedEmitted
  /\ updateToken = FALSE
  /\ canceller = FreshCanceller(0)
  /\ subs = <<>>
  /\ manifestListeners = <<>>
  /\ emitterListeners = Cardinality(Listeners)
  /\ adaptationRef = [value |-> UndefinedChoice, finished |-> FALSE,
                      subscribers |-> Subscribers]
  /\ stack = <<>>
  /\ started = FALSE
  /\ disposed = FALSE
  /\ chain = <<>>
  /\ outLog = <<>>
  /\ received = [s \in Subscribers |-> <<>>]
  /\ recLog = <<>>
  /\ nullRun = <<>>
  /\ calledAfterDispose = FALSE
  /\ cancelLog = <<>>
  /\ lateOnUpdate = FALSE
  /\ envSteps = 0

Init == Constructed /\ ParsersIdle

CanCall(p) == p # NullPref => Len(subs) < MaxRefs

Start ==
  \E p \in Prefs \cup {NullPref} :
    /\ stack = <<>> /\ ~started /\ CanCall(p)
    /\ Assign(EnterCall(NewChain(World), "start", p))

UpdateTrack ==
  \E p \in Prefs \cup {NullPref} :
    /\ stack = <<>> /\ started /\ CanCall(p)
    /\ Assign(EnterCall(NewChain(World), "updateTrack", p))

\* updateTrack called by the callback that is presently running
NestedUpdateTrack ==
  \E p \in Prefs \cup {NullPref} :
    /\ stack # <<>> /\ Len(stack) < MaxDepth /\ Len(chain) < MaxChain
    /\ CanCall(p)
    /\ Assign(EnterCall(World, "updateTrack", p))

Dispose ==
  /\ stack = <<>> /\ ~disposed
  /\ Assign(DoDispose(NewChain(World)))

NestedDispose ==
  /\ stack # <<>> /\ ~disposed
  /\ Assign(DoDispose(World))

CallbackReturn ==
  /\ stack # <<>>
  /\ Assign(Resume(World))

DecipherabilityUpdate ==
  \E pl \in PlayableChoices :
    /\ stack = <<>> /\ envSteps < MaxEnv
    /\ Assign(ProcessQueue([NewChain(World) EXCEPT !.playable = pl,
                                                   !.envSteps = envSteps + 1],
                           manifestListeners, "decipherabilityUpdate"))

ManifestUpdate ==
  \E pl \in PlayableChoices :
    /\ stack = <<>> /\ envSteps < MaxEnv
    /\ Assign(ProcessQueue([NewChain(World) EXCEPT !.playable = pl,
                                                   !.envSteps = envSteps + 1],
                           manifestListeners, "manifestUpdate"))

\* lockedRepresentations.setValue(l) on a preference, l drawn from choices
LockUpdateTo(choices) ==
  \E p \in LockablePrefs, l \in choices :
    /\ stack = <<>> /\ envSteps < MaxEnv
    /\ Assign(ProcessQueue([NewChain(World) EXCEPT !.lockRef[p] = l,
                                                   !.envSteps = envSteps + 1],
                           LockSubscribers(World, p), "lockUpdate"))

LockUpdate == LockUpdateTo(LockChoices)

Next ==
  \/ Start
  \/ UpdateTrack
  \/ NestedUpdateTrack
  \/ Dispose
  \/ NestedDispose
  \/ CallbackReturn
  \/ DecipherabilityUpdate
  \/ ManifestUpdate
  \/ LockUpdate

Spec == Init /\ [][Next]_vars

\* Re-entrancy: the Dispatcher is built on a Manifest in any playability
\* pattern, possibly with a lock already set; calls nest through callbacks.
InitChain ==
  \E pl \in PlayableChoices, l \in ChainLocks :
    /\ playable = pl
    /\ isSupported = [a \in Adaptations |-> TRUE]
    /\ lockRef = [p \in Prefs |-> IF p \in LockablePrefs THEN l ELSE NoLock]
    /\ lastEmitted = UndefinedEmitted
    /\ updateToken = FALSE
    /\ canceller = FreshCanceller(0)
    /\ subs = <<>>
    /\ manifestListeners = <<>>
    /\ emitterListeners = Cardinality(Listeners)
    /\ adaptationRef = [value |-> UndefinedChoice, finished |-> FALSE,
                        subscribers |-> Subscribers]
    /\ stack = <<>>
    /\ started = FALSE
    /\ disposed = FALSE
    /\ chain = <<>>
    /\ outLog = <<>>
    /\ received = [s \in Subscribers |-> <<>>]
    /\ recLog = <<>>
    /\ nullRun = <<>>
    /\ calledAfterDispose = FALSE
    /\ cancelLog = <<>>
    /\ lateOnUpdate = FALSE
    /\ envSteps = 0
    /\ ParsersIdle

NextChain ==
  \/ ~disposed /\ Start
  \/ ~disposed /\ UpdateTrack
  \/ NestedUpdateTrack
  \/ Dispose
  \/ NestedDispose
  \/ CallbackReturn

SpecChain == InitChain /\ [][NextChain]_vars

\* Recompute: Manifest events and lock updates between Dispatcher calls,
\* with callbacks that do not call back into the Dispatcher; nothing is
\* called on a disposed Dispatcher.
NextEnv ==
  \/ ~disposed /\ Start
  \/ ~disposed /\ UpdateTrack
  \/ Dispose
  \/ CallbackReturn
  \/ ~disposed /\ DecipherabilityUpdate
  \/ ~disposed /\ ManifestUpdate
  \/ ~disposed /\ LockUpdate

SpecEnv == Init /\ [][NextEnv]_vars

\* Locking: the Manifest is in any playability pattern, the preference may
\* come with a lock on one Representation, and the lock is set and reset.
InitLock ==
  \E pl \in PlayableChoices, l \in SingleLocks :
    /\ playable = pl
    /\ isSupported = [a \in Adaptations |-> TRUE]
    /\ lockRef = [p \in Prefs |-> IF p \in LockablePrefs THEN l ELSE NoLock]
    /\ lastEmitted = UndefinedEmitted
    /\ updateToken = FALSE
    /\ canceller = FreshCanceller(0)
    /\ subs = <<>>
    /\ manifestListeners = <<>>
    /\ emitterListeners = Cardinality(Listeners)
    /\ adaptationRef = [value |-> UndefinedChoice, finished |-> FALSE,
                        subscribers |-> Subscribers]
    /\ stack = <<>>
    /\ started = FALSE
    /\ disposed = FALSE
    /\ chain = <<>>
    /\ outLog = <<>>
    /\ received = [s \in Subscribers |-> <<>>]
    /\ recLog = <<>>
    /\ nullRun = <<>>
    /\ calledAfterDispose = FALSE
    /\ cancelLog = <<>>
    /\ lateOnUpdate = FALSE
    /\ envSteps = 0
    /\ ParsersIdle

NextLock ==
  \/ Start
  \/ UpdateTrack
  \/ CallbackReturn
  \/ LockUpdateTo(SingleLocks)

SpecLock == InitLock /\ [][NextLock]_vars

\* Disposal: the Dispatcher is disposed at any point between two calls, and
\* afterwards the Manifest and the locks still change and start/updateTrack
\* may still be called.
NextDisposed ==
  \/ Start
  \/ UpdateTrack
  \/ Dispose
  \/ CallbackReturn
  \/ disposed /\ DecipherabilityUpdate
  \/ disposed /\ ManifestUpdate
  \/ disposed /\ LockUpdate

SpecDisposed == Init /\ [][NextDisposed]_vars

\* The outward Reference: it has one subscriber at first, the pipeline
\* subscribes to it later, also once the Dispatcher is disposed, and
\* start/updateTrack may still be called on the disposed Dispatcher.
InitRef ==
  /\ playable = [r \in Reps |-> TRUE]
  /\ isSupported = [a \in Adaptations |-> TRUE]
  /\ lockRef = [p \in Prefs |-> NoLock]
  /\ lastEmitted = UndefinedEmitted
  /\ updateToken = FALSE
  /\ canceller = FreshCanceller(0)
  /\ subs = <<>>
  /\ manifestListeners = <<>>
  /\ emitterListeners = Cardinality(Listeners)
  /\ adaptationRef = [value |-> UndefinedChoice, finished |-> FALSE,
                      subscribers |-> {Min(Subscribers)}]
  /\ stack = <<>>
  /\ started = FALSE
  /\ disposed = FALSE
  /\ chain = <<>>
  /\ outLog = <<>>
  /\ received = [s \in Subscribers |-> <<>>]
  /\ recLog = <<>>
  /\ nullRun = <<>>
  /\ calledAfterDispose = FALSE
  /\ cancelLog = <<>>
  /\ lateOnUpdate = FALSE
  /\ envSteps = 0
  /\ ParsersIdle

\* A subscriber registers on the outward Reference
OnUpdate ==
  \E s \in Subscribers, emitCurrentValue \in BOOLEAN :
    /\ stack = <<>> /\ s \notin adaptationRef.subscribers
    /\ Assign(OnUpdateOutward(NewChain(World), s, emitCurrentValue))

NextRef ==
  \/ Start
  \/ UpdateTrack
  \/ Dispose
  \/ CallbackReturn
  \/ OnUpdate

SpecRef == InitRef /\ [][NextRef]_vars

\* ------------------------------------------------------------------------
\* TTML: resolveStylesInheritance (resolve_styles_inheritance.js)
\* ------------------------------------------------------------------------
\* The styles of the document, in document order; "unknown" is an id no
\* style has
StyleOrder == <<"s1", "s2", "s3">>
StyleIds == { StyleOrder[k] : k \in DOMAIN StyleOrder }
UnknownStyleId == "unknown"
StyleKeys == {"color"}
NoValue == "none"

\* The extendsStyles lists: ids of the document or unknown, none twice
ExtendsLists ==
  { l \in UNION { [1..n -> StyleIds \cup {UnknownStyleId}] : n \in 0..MaxExtends } :
      \A a, b \in DOMAIN l : a # b => l[a] # l[b] }

\* The lists a document gives to its styles: the last style extends at most
\* one style
DocumentExtends ==
  { ext \in [DOMAIN StyleOrder -> ExtendsLists] : Len(ext[Len(StyleOrder)]) <= 1 }

\* The styles that define the key themselves: the last one does, each of
\* the others may
OwnChoices ==
  { S \cup {StyleOrder[Len(StyleOrder)]} :
      S \in SUBSET (StyleIds \ {StyleOrder[Len(StyleOrder)]}) }

\* arrayFindIndex(styles, x => x.id === id), 0 when there is none
StyleIndexOf(sts, id) ==
  IF \E k \in DOMAIN sts : sts[k].id = id
  THEN CHOOSE k \in DOMAIN sts :
         sts[k].id = id /\ \A m \in DOMAIN sts : sts[m].id = id => k <= m
  ELSE 0

\* Mutant: the extended style overrides the style's own values
ObjectAssignExtendedLast(extended, own) ==
  [k \in StyleKeys |-> IF extended[k] # NoValue THEN extended[k] ELSE own[k]]

\* objectAssign({}, extendedStyle.style, styleElt.style)
ObjectAssign(extended, own) ==
  [k \in StyleKeys |-> IF own[k] # NoValue THEN own[k] ELSE extended[k]]

\* Mutant: no index is ever found among the browsed ones
IsBrowsedNever(browsed, index) == FALSE

\* arrayIncludes(recursivelyBrowsedIndexes, extendedStyleIndex)
IsBrowsed(browsed, index) == \E k \in DOMAIN browsed : browsed[k] = index

\* Line 76: styleElt.style = objectAssign({}, extendedStyle.style, styleElt.style)
MergeInto(sts, index, extendedIndex) ==
  [sts EXCEPT ![index].style = ObjectAssign(sts[extendedIndex].style, @)]

ResolveDone == resolveStack = <<>> /\ styleIndex > Len(styles)

InitStyles ==
  /\ Constructed
  /\ \E own \in OwnChoices, ext \in DocumentExtends :
       styles = [k \in DOMAIN StyleOrder |->
                   [id |-> StyleOrder[k],
                    style |-> [key \in StyleKeys |->
                                 IF StyleOrder[k] \in own THEN StyleOrder[k]
                                 ELSE NoValue],
                    extendsStyles |-> ext[k]]]
  /\ stylesInput = styles
  /\ browsedIndexes = <<>>
  /\ resolveStack = <<>>
  /\ styleIndex = 1
  /\ resolveSteps = 0
  /\ inferArgs = <<>>
  /\ inferResult = [returned |-> FALSE, type |-> "undefined"]

\* Lines 79-80 and 56: the loop of resolveStylesInheritance calls
\* resolveStyleInheritance(styles[i], i)
ResolveNextStyle ==
  /\ resolveStack = <<>> /\ styleIndex <= Len(styles)
  /\ resolveStack' = <<[index |-> styleIndex, j |-> 1]>>
  /\ browsedIndexes' = Append(browsedIndexes, styleIndex)
  /\ resolveSteps' = resolveSteps + 1
  /\ UNCHANGED <<styles, stylesInput, styleIndex, inferArgs, inferResult>>
  /\ UNCHANGED dispatcherVars

\* Lines 57-77: one iteration of the loop over styleElt.extendsStyles, up
\* to the recursive call when there is one
ExtendsIteration ==
  /\ resolveStack # <<>>
  /\ LET f == resolveStack[Len(resolveStack)]
         elt == styles[f.index]
     IN /\ f.j <= Len(elt.extendsStyles)
        /\ LET extendedStyleIndex == StyleIndexOf(styles, elt.extendsStyles[f.j])
               next == [resolveStack EXCEPT ![Len(resolveStack)].j = f.j + 1]
           IN IF extendedStyleIndex = 0
              THEN /\ resolveStack' = next
                   /\ UNCHANGED <<styles, browsedIndexes>>
              ELSE IF IsBrowsed(browsedIndexes, extendedStyleIndex)
              THEN /\ resolveStack' = next
                   /\ styles' = MergeInto(styles, f.index, extendedStyleIndex)
                   /\ UNCHANGED browsedIndexes
              ELSE /\ resolveStack' = Append(resolveStack,
                                             [index |-> extendedStyleIndex, j |-> 1])
                   /\ browsedIndexes' = Append(browsedIndexes, extendedStyleIndex)
                   /\ UNCHANGED styles
  /\ resolveSteps' = resolveSteps + 1
  /\ UNCHANGED <<stylesInput, styleIndex, inferArgs, inferResult>>
  /\ UNCHANGED dispatcherVars

\* Lines 78 and 76, or 78 and 81: the loop is over, extendsStyles is
\* emptied and the call returns, to the iteration that made it (which
\* merges the extended style) or to the loop of resolveStylesInheritance
\* (which resets the browsed indexes)
ResolveReturn ==
  /\ resolveStack # <<>>
  /\ LET f == resolveStack[Len(resolveStack)]
         emptied == [styles EXCEPT ![f.index].extendsStyles = <<>>]
         rest == SubSeq(resolveStack, 1, Len(resolveStack) - 1)
     IN /\ f.j > Len(styles[f.index].extendsStyles)
        /\ IF rest = <<>>
           THEN /\ styles' = emptied
                /\ resolveStack' = rest
                /\ browsedIndexes' = <<>>
                /\ styleIndex' = styleIndex + 1
           ELSE LET caller == rest[Len(rest)]
                IN /\ styles' = MergeInto(emptied, caller.index, f.index)
                   /\ resolveStack' = [rest EXCEPT ![Len(rest)].j = caller.j + 1]
                   /\ UNCHANGED <<browsedIndexes, styleIndex>>
  /\ resolveSteps' = resolveSteps + 1
  /\ UNCHANGED <<stylesInput, inferArgs, inferResult>>
  /\ UNCHANGED dispatcherVars

NextStyles ==
  \/ ResolveNextStyle
  \/ ExtendsIteration
  \/ ResolveReturn

SpecStyles == InitStyles /\ [][NextStyles]_vars

\* ------------------------------------------------------------------------
\* Manifest parsing: inferAdaptationType
\* ------------------------------------------------------------------------
\* A mime type is the pair of its two parts ("video/mp4" is <<"video",
\* "mp4">>), a codecs string the sequence of its characters; the empty
\* sequence stands for null (Adaptation) and undefined (Representation).
NoMimeType == <<>>
NoCodecs == <<>>
MimeTypes ==
  { <<"video", "mp4">>, <<"application", "mp4">>, <<"application", "ttml+xml">>,
    <<"application", "bif">>, <<"application", "octet-stream">> }
RepresentationMimeTypes ==
  { <<"audio", "mp4">>, <<"application", "mp4">>, <<"application", "octet-stream">> }
CodecsStrings ==
  { <<"a", "v", "c", "1">>, <<"m", "p", "4", "a">>, <<"v", "t", "t">>,
    <<"o", "p", "u", "s">> }
RepresentationCodecs ==
  { <<"h", "v", "c", "1">>, <<"s", "t", "p", "p">>, <<"o", "p", "u", "s">> }

DashRoleScheme == "urn:mpeg:dash:role:2011"
NullRoles == [isNull |-> TRUE, list |-> <<>>]
RolesChoices ==
  { NullRoles,
    [isNull |-> FALSE, list |-> <<>>],
    [isNull |-> FALSE, list |-> <<[schemeIdUri |-> DashRoleScheme, value |-> "main"],
                                  [schemeIdUri |-> DashRoleScheme, value |-> "caption"]>>],
    [isNull |-> FALSE, list |-> <<[schemeIdUri |-> "urn:other", value |-> "subtitle"]>>] }

InferRepresentations ==
  UNION { [1..n -> [mimeType : RepresentationMimeTypes \cup {NoMimeType},
                    codecs : RepresentationCodecs \cup {NoCodecs}]] :
            n \in 0..MaxInferReps }

KNOWN_ADAPTATION_TYPES == {"audio", "video", "text", "image"}
SUPPORTED_TEXT_TYPES == {"subtitle", "caption"}
UndefinedType == "undefined"

\* codecs.substring(0, n)
Substring(codecs, n) == SubSeq(codecs, 1, IF n < Len(codecs) THEN n ELSE Len(codecs))

\* Lines 123-146
fromMimeType(mimeType, roles) ==
  IF mimeType[1] \in KNOWN_ADAPTATION_TYPES THEN mimeType[1]
  ELSE IF mimeType = <<"application", "bif">> THEN "image"
  ELSE IF mimeType = <<"application", "ttml+xml">> THEN "text"
  ELSE IF mimeType = <<"application", "mp4">>
       THEN IF /\ ~roles.isNull
               /\ \E k \in DOMAIN roles.list :
                    /\ roles.list[k].schemeIdUri = DashRoleScheme
                    /\ roles.list[k].value \in SUPPORTED_TEXT_TYPES
            THEN "text"
            ELSE UndefinedType
  ELSE UndefinedType

\* Lines 147-167
fromCodecs(codecs) ==
  IF Substring(codecs, 3) \in { <<"a", "v", "c">>, <<"h", "e", "v">>, <<"h", "v", "c">>,
                                <<"v", "p", "8">>, <<"v", "p", "9">>, <<"a", "v", "1">> }
  THEN "video"
  ELSE IF Substring(codecs, 3) = <<"v", "t", "t">> THEN "text"
  ELSE IF Substring(codecs, 3) = <<"b", "i", "f">> THEN "image"
  ELSE IF Substring(codecs, 4) = <<"m", "p", "4", "a">> THEN "audio"
  ELSE IF Substring(codecs, 4) \in { <<"w", "v", "t", "t">>, <<"s", "t", "p", "p">> }
  THEN "text"
  ELSE UndefinedType

\* Mutant: the codecs of a Representation are looked at before its mimeType
fromRepresentationCodecsFirst(representation, roles) ==
  LET typeFromCodecs == IF representation.codecs # NoCodecs
                        THEN fromCodecs(representation.codecs)
                        ELSE UndefinedType
  IN IF typeFromCodecs # UndefinedType THEN typeFromCodecs
     ELSE IF representation.mimeType # NoMimeType
     THEN fromMimeType(representation.mimeType, roles)
     ELSE UndefinedType

\* Lines 181-195: the body of the loop over the Representations
fromRepresentation(representation, roles) ==
  LET typeFromMimeType == IF representation.mimeType # NoMimeType
                          THEN fromMimeType(representation.mimeType, roles)
                          ELSE UndefinedType
  IN IF typeFromMimeType # UndefinedType THEN typeFromMimeType
     ELSE IF representation.codecs # NoCodecs
     THEN fromCodecs(representation.codecs)
     ELSE UndefinedType

\* Lines 180-197: the loop over the Representations, from index i on
RECURSIVE fromRepresentations(_, _, _)
fromRepresentations(representations, i, roles) ==
  IF i > Len(representations) THEN UndefinedType
  ELSE LET type == fromRepresentation(representations[i], roles)
       IN IF type # UndefinedType THEN type
          ELSE fromRepresentations(representations, i + 1, roles)

\* Mutant: the Adaptation's codecs are looked at before its mimeType
inferAdaptationTypeCodecsFirst(args) ==
  LET typeFromCodecs == IF args.adaptationCodecs # NoCodecs
                        THEN fromCodecs(args.adaptationCodecs)
                        ELSE UndefinedType
      typeFromMimeType == IF args.adaptationMimeType # NoMimeType
                          THEN fromMimeType(args.adaptationMimeType, args.adaptationRoles)
                          ELSE UndefinedType
  IN IF typeFromCodecs # UndefinedType THEN typeFromCodecs
     ELSE IF typeFromMimeType # UndefinedType THEN typeFromMimeType
     ELSE fromRepresentations(args.representations, 1, args.adaptationRoles)

\* Lines 122-198
inferAdaptationType(args) ==
  LET typeFromMimeType == IF args.adaptationMimeType # NoMimeType
                          THEN fromMimeType(args.adaptationMimeType, args.adaptationRoles)
                          ELSE UndefinedType
      typeFromCodecs == IF args.adaptationCodecs # NoCodecs
                        THEN fromCodecs(args.adaptationCodecs)
                        ELSE UndefinedType
  IN IF typeFromMimeType # UndefinedType THEN typeFromMimeType
     ELSE IF typeFromCodecs # UndefinedType THEN typeFromCodecs
     ELSE fromRepresentations(args.representations, 1, args.adaptationRoles)

InitInfer ==
  /\ Constructed
  /\ styles = <<>>
  /\ stylesInput = <<>>
  /\ browsedIndexes = <<>>
  /\ resolveStack = <<>>
  /\ styleIndex = 1
  /\ resolveSteps = 0
  /\ \E reps \in InferRepresentations, m \in MimeTypes \cup {NoMimeType},
        c \in CodecsStrings \cup {NoCodecs}, r \in RolesChoices :
       inferArgs = [representations |-> reps, adaptationMimeType |-> m,
                    adaptationCodecs |-> c, adaptationRoles |-> r]
  /\ inferResult = [returned |-> FALSE, type |-> UndefinedType]

\* inferAdaptationType is called on the arguments and returns
InferCall ==
  /\ inferArgs # <<>> /\ ~inferResult.returned
  /\ inferResult' = [returned |-> TRUE, type |-> inferAdaptationType(inferArgs)]
  /\ UNCHANGED <<styles, stylesInput, browsedIndexes, resolveStack, styleIndex,
                 resolveSteps, inferArgs>>
  /\ UNCHANGED dispatcherVars

NextInfer == InferCall

SpecInfer == InitInfer /\ [][NextInfer]_vars

\* ------------------------------------------------------------------------
\* Properties
\* ------------------------------------------------------------------------
LastCall == chain[Len(chain)]

ChoiceOf(c, ref) ==
  AdaptationChoice(c.pref, ref, PublishedResumingPosition(c.op, c.pref))

\* The chain updateTrack(A) { updateTrack(B) }, B called by a listener of a
\* Dispatcher event triggered while A's sub-channel was being built.
ReentrantPair ==
  /\ stack = <<>> /\ ~disposed /\ Len(chain) = 2
  /\ chain[1].op = "updateTrack" /\ chain[1].pref # NullPref
  /\ chain[2].op = "updateTrack" /\ chain[2].pref # NullPref
  /\ chain[2].parent = 1 /\ chain[2].via = "construct"

\* C1: after updateTrack(A) with updateTrack(B) nested in a listener fired
\* while A's sub-channel is built (A, B non-null), the outward Reference holds
\* B's Adaptation Choice, exactly one publish happened in the whole chain, and
\* A was never published.
C1_ReentrantPairPublishesB ==
  ReentrantPair =>
    /\ adaptationRef.value = ChoiceOf(chain[2], Len(subs))
    /\ outLog = <<ChoiceOf(chain[2], Len(subs))>>
    /\ \A s \in Subscribers : \A i \in DOMAIN received[s] :
         received[s][i].representations # Len(subs) - 1

C1_Witness ==
  /\ ReentrantPair
  /\ chain[1].pref = "pA" /\ chain[2].pref = "pB"
  /\ adaptationRef.value.adaptation = "a2"
  /\ Len(outLog) = 1

\* C2: a non-null start/updateTrack call during whose sub-channel computation
\* a nested call committed writes neither _lastEmitted nor the outward
\* Reference.
C2_NoStaleCommit ==
  ~disposed =>
    \A c \in DOMAIN chain :
      (chain[c].pref # NullPref /\ chain[c].superseded) => ~chain[c].committed

\* C3: once a re-entrant chain of start/updateTrack calls has returned, the
\* outward Reference holds the preference of the call invoked last: null if
\* it was null, its adaptation and switchingMode otherwise.
C3_LastWriterWins ==
  (stack = <<>> /\ chain # <<>> /\ ~disposed) =>
    IF LastCall.pref = NullPref
    THEN adaptationRef.value.state = "null"
    ELSE /\ adaptationRef.value.state = "set"
         /\ adaptationRef.value.adaptation = PrefAdaptation(LastCall.pref)
         /\ adaptationRef.value.switchingMode = PrefSwitchingMode(LastCall.pref)

\* C4: every subscriber of the outward Reference receives each committed value
\* exactly once and in commit order, so that once the outermost operation has
\* returned the last value it received is the Reference's value.
C4_ExactlyOnceInOrder ==
  (stack = <<>> /\ ~disposed) =>
    \A s \in Subscribers :
      /\ received[s] = outLog
      /\ outLog # <<>> => received[s][Len(received[s])] = adaptationRef.value

NumPublished(run) == Cardinality({ i \in DOMAIN run : run[i].published })

\* C5 as stated: two consecutive updateTrack(null) calls with no non-null
\* start/updateTrack in between cause exactly one publish in total.
C5_Original_ExactlyOnePublish ==
  (Len(nullRun) = 2 /\ ~disposed) => NumPublished(nullRun) = 1

\* C5 amended: two consecutive updateTrack(null) calls with no non-null
\* start/updateTrack call or commit in between cause at most one publish in
\* total: one, by the first call, when the snapshot was not null before it,
\* none when the snapshot was already null.
C5_NullIdempotence ==
  (Len(nullRun) = 2 /\ ~disposed) =>
    /\ ~nullRun[2].published
    /\ nullRun[1].published <=> ~nullRun[1].wasNull

C5_Witness ==
  /\ Len(nullRun) = 2 /\ ~disposed /\ stack = <<>>
  /\ nullRun[1].published /\ ~nullRun[2].published
  /\ adaptationRef.value.state = "null"

\* A step that is an updateTrack(null) call made while the snapshot is null
NullCallOnNullSnapshot ==
  /\ lastEmitted.state = "null"
  /\ chain' # <<>>
  /\ chain'[Len(chain')].op = "updateTrack"
  /\ chain'[Len(chain')].pref = NullPref
  /\ \/ stack # <<>> /\ Len(chain') = Len(chain) + 1
     \/ stack = <<>> /\ Len(chain') = 1

\* C6: updateTrack(null) called while the last emitted snapshot is null
\* publishes nothing on the outward Reference, neither cancels nor replaces
\* the canceller, and leaves the snapshot null.
C6_NullOnNullIsNoOp ==
  [][NullCallOnNullSnapshot =>
       /\ adaptationRef' = adaptationRef
       /\ Len(outLog') = (IF stack = <<>> THEN 0 ELSE Len(outLog))
       /\ received' = (IF stack = <<>> THEN [s \in Subscribers |-> <<>>] ELSE received)
       /\ canceller' = canceller
       /\ manifestListeners' = manifestListeners
       /\ subs' = subs
       /\ lastEmitted' = lastEmitted
       /\ stack' = stack]_vars

C6_Witness ==
  /\ stack # <<>> /\ chain # <<>> /\ ~disposed
  /\ LastCall.op = "updateTrack" /\ LastCall.pref = NullPref
  /\ LastCall.emittedBefore.state = "null"
  /\ manifestListeners # <<>>
  /\ updateToken

\* C7: every setValue made by the recompute logic on a Representations-Choice
\* Reference carries at least one Representation.
C7_NeverPublishesEmpty ==
  \A i \in DOMAIN recLog :
    recLog[i].published => Len(recLog[i].after.representations) >= 1

C7_Witness ==
  \E i \in DOMAIN recLog :
    /\ recLog[i].published
    /\ recLog[i].before.representations # <<>>
    /\ envSteps > 0

AllUnplayable(pl, reps) == \A k \in DOMAIN reps : ~pl[reps[k]]

\* C8: a recompute with a null lock and no playable Representation in the
\* Adaptation leaves the Reference's value unchanged, sets isSupported to
\* false and emits noPlayableRepresentation exactly once.
C8_EmptyUnlockedRetention ==
  \A i \in DOMAIN recLog :
    (/\ ~recLog[i].lock.locked
     /\ AllUnplayable(recLog[i].playable,
                      AdaptationRepresentations(recLog[i].adaptation)))
    => /\ ~recLog[i].published
       /\ recLog[i].after = recLog[i].before
       /\ recLog[i].supportedAfter = FALSE
       /\ recLog[i].events = <<"noPlayableRepresentation">>

C8_Witness ==
  \E i \in DOMAIN recLog :
    /\ ~recLog[i].lock.locked
    /\ recLog[i].cands = <<>>
    /\ recLog[i].before.representations # <<>>
    /\ recLog[i].after = recLog[i].before
    /\ recLog[i].supportedBefore

\* C9: a recompute with a lock none of whose Representations is playable
\* emits noPlayableLockedRepresentation exactly once and nothing else, leaves
\* the Reference's value unchanged and does not modify isSupported.
C9_EmptyLockedRetention ==
  \A i \in DOMAIN recLog :
    (/\ recLog[i].lock.locked
     /\ AllUnplayable(recLog[i].playable, recLog[i].lock.representations))
    => /\ recLog[i].events = <<"noPlayableLockedRepresentation">>
       /\ ~recLog[i].published
       /\ recLog[i].after = recLog[i].before
       /\ recLog[i].supportedAfter = recLog[i].supportedBefore

C9_Witness ==
  \E i \in DOMAIN recLog :
    /\ recLog[i].lock.locked
    /\ recLog[i].cands = <<>>
    /\ recLog[i].before.representations # <<>>
    /\ recLog[i].supportedBefore
    /\ \E r \in Reps : recLog[i].playable[r]

\* Position of Representation r in the list reps
IndexIn(reps, r) == CHOOSE k \in DOMAIN reps : reps[k] = r

CandidateSource(rec) ==
  IF rec.lock.locked THEN rec.lock.representations
  ELSE AdaptationRepresentations(rec.adaptation)

\* C10: every value published on a Representations-Choice Reference lists its
\* Representations by ascending bitrate, those of equal bitrate in the
\* relative order they had in the candidate set.
C10_SortedStable ==
  \A i \in DOMAIN recLog :
    recLog[i].published =>
      LET reps == recLog[i].after.representations
          src == CandidateSource(recLog[i])
      IN \A j, k \in DOMAIN reps :
           j < k => /\ bitrate(reps[j]) <= bitrate(reps[k])
                    /\ bitrate(reps[j]) = bitrate(reps[k])
                         => IndexIn(src, reps[j]) < IndexIn(src, reps[k])

C10_Witness ==
  \E i \in DOMAIN recLog :
    /\ recLog[i].published
    /\ recLog[i].cands = <<"r1", "r2", "r3">>
    /\ recLog[i].after.representations = <<"r2", "r1", "r3">>

\* A step that is a Manifest event or a lock update which changes neither
\* the playability nor any lock
UnchangedInputsEvent ==
  /\ stack = <<>>
  /\ envSteps' = envSteps + 1
  /\ playable' = playable
  /\ lockRef' = lockRef

\* C11: a recompute whose sorted candidates have the length and, position by
\* position, the ids of the Reference's current value publishes nothing; so
\* with lock and playability unchanged, a manifestUpdate event after the
\* initial computation publishes nothing on any Representations-Choice
\* Reference.
C11_ChangeDetection ==
  [][/\ \A i \in DOMAIN recLog' :
          SortByBitrate(recLog'[i].cands) = recLog'[i].before.representations
          => /\ ~recLog'[i].published
             /\ recLog'[i].after = recLog'[i].before
     /\ UnchangedInputsEvent =>
          /\ \A i \in DOMAIN recLog' : ~recLog'[i].published
          /\ \A i \in DOMAIN subs : subs'[i].value = subs[i].value]_vars

C11_Witness ==
  /\ envSteps = 2 /\ stack = <<>> /\ ~disposed
  /\ \A r \in Reps : playable[r]
  /\ Len(recLog) = 1
  /\ ~recLog[1].published /\ recLog[1].event = "none"
  /\ recLog[1].before.representations = <<"r2", "r1", "r3">>
  /\ recLog[1].before.representations = SortByBitrate(recLog[1].cands)

\* The lock of preference p is on the single Representation r, playable and
\* part of p's Adaptation, and the step sets the lock back to null while the
\* sub-channel i built for p is subscribed to it
UnlockStep(p, i, r) ==
  /\ stack = <<>>
  /\ subs[i].pref = p /\ subs[i].lockSub
  /\ lockRef[p].locked /\ lockRef[p].representations = <<r>>
  /\ playable[r]
  /\ \E k \in DOMAIN AdaptationRepresentations(PrefAdaptation(p)) :
       AdaptationRepresentations(PrefAdaptation(p))[k] = r
  /\ envSteps' = envSteps + 1
  /\ lockRef'[p] = NoLock
  /\ playable' = playable

\* C12: when the lock, set to one playable Representation R2 of the
\* Adaptation with any switching mode, is set back to null, the
\* Representations-Choice Reference holds every playable Representation of
\* the Adaptation, sorted by bitrate, with switchingMode "lazy".
C12_LockRoundTrip ==
  [][\A p \in LockablePrefs : \A i \in DOMAIN subs : \A r \in Reps :
       UnlockStep(p, i, r) =>
         subs'[i].value =
           [representations |->
              SortByBitrate(getPlayableRepresentations(playable, PrefAdaptation(p))),
            switchingMode |-> "lazy"]]_vars

\* What the outward subscribers have received after a step that notifies none
\* of them: the history starts afresh with a top-level operation
ReceivedIfNoneNotified ==
  IF stack = <<>> THEN [s \in Subscribers |-> <<>>] ELSE received

\* C13: dispose() finishes the outward Reference and leaves its value as it
\* was; from then on no operation changes that value or notifies a
\* subscriber of the outward Reference.
C13_DisposalFinality ==
  [][/\ (~disposed /\ disposed') =>
          /\ adaptationRef'.finished
          /\ adaptationRef'.value = adaptationRef.value
     /\ disposed =>
          /\ adaptationRef.finished
          /\ adaptationRef' = adaptationRef
          /\ received' = ReceivedIfNoneNotified]_vars

C13_Witness ==
  /\ disposed /\ calledAfterDispose /\ envSteps > 0 /\ stack = <<>>
  /\ adaptationRef.finished
  /\ adaptationRef.value.state = "set" /\ adaptationRef.value.adaptation = "a1"
  /\ lastEmitted.state = "set" /\ lastEmitted.adaptation = "a2"

\* A step that is a Manifest event or a lock update notified to a Dispatcher
\* that was disposed and not called since
EventAfterDispose ==
  /\ disposed /\ ~calledAfterDispose
  /\ stack = <<>>
  /\ envSteps' = envSteps + 1

IsStale(i) == subs[i].signal < canceller.id

\* C15: once updateTrack has cancelled the canceller, the Manifest listeners
\* and the lock subscription of the sub-channels built before are removed,
\* and no Manifest event or lock update recomputes such a sub-channel: its
\* value does not change, and it neither writes isSupported nor triggers a
\* Dispatcher event.
C15_NoStaleSubscription ==
  [][/\ \A i \in DOMAIN subs :
          IsStale(i) =>
            /\ ~subs[i].lockSub
            /\ \A k \in DOMAIN manifestListeners : manifestListeners[k] # i
     /\ (stack = <<>> /\ envSteps' = envSteps + 1) =>
          /\ \A i \in DOMAIN subs : IsStale(i) => subs'[i] = subs[i]
          /\ \A k \in DOMAIN recLog' : recLog'[k].sub = Len(subs)]_vars

C15_Witness ==
  /\ Len(subs) = 2 /\ stack = <<>> /\ ~disposed /\ envSteps = 2
  /\ subs[1].pref = "pA" /\ subs[2].pref = "pA"
  /\ IsStale(1)
  /\ lockRef["pA"].locked /\ lockRef["pA"].representations = <<"r3", "r2">>
  /\ playable["r2"] /\ ~playable["r3"]
  /\ subs[1].value.representations = <<"r2", "r1", "r3">>
  /\ subs[2].value.representations = <<"r2">>

\* Sub-channel i has its Manifest listeners, resp. its lock subscription, installed
HasManifestListeners(i) ==
  \E k \in DOMAIN manifestListeners : manifestListeners[k] = i

HasLockSubscription(i) == subs[i].lockSub

\* C16: between calls the Dispatcher is Active (the outward value is an
\* Adaptation Choice, and the sub-channel it holds, and no other, has its
\* Manifest listeners and its lock subscription installed) exactly when the
\* last committed preference is non-null, and it has no sub-channel listener
\* installed otherwise; a disposed Dispatcher never has one installed.
\* Stated for the Dispatchers that are not called after dispose().
C16_StateMachine ==
  ~calledAfterDispose =>
    /\ (stack = <<>> /\ ~disposed) =>
         IF lastEmitted.state = "set"
         THEN /\ adaptationRef.value.state = "set"
              /\ \A i \in DOMAIN subs :
                   /\ HasManifestListeners(i) <=> i = adaptationRef.value.representations
                   /\ HasLockSubscription(i) <=> i = adaptationRef.value.representations
         ELSE /\ adaptationRef.value.state # "set"
              /\ \A i \in DOMAIN subs :
                   ~HasManifestListeners(i) /\ ~HasLockSubscription(i)
    /\ disposed =>
         \A i \in DOMAIN subs : ~HasManifestListeners(i) /\ ~HasLockSubscription(i)

\* A step that is a start or updateTrack call made on a disposed Dispatcher
CallAfterDispose ==
  /\ disposed
  /\ stack = <<>>
  /\ chain' # <<>>

\* C17: start or updateTrack called after dispose() does not proceed: it
\* registers no Manifest listener and no lock subscription, does not write
\* the last-emitted snapshot and does not change the outward Reference.
C17_CallAfterDisposeRejected ==
  [][CallAfterDispose =>
       /\ manifestListeners' = manifestListeners
       /\ subs' = subs
       /\ canceller' = canceller
       /\ lastEmitted' = lastEmitted
       /\ adaptationRef' = adaptationRef]_vars

\* start(null) is the only call made so far
OnlyStartNull ==
  /\ Len(chain) = 1
  /\ chain[1].op = "start" /\ chain[1].pref = NullPref

\* C18: start(null) publishes null once on the outward Reference, installs
\* neither Manifest listener nor lock subscription (it builds no
\* sub-channel) and leaves the last-emitted snapshot null.
C18_StartNull ==
  OnlyStartNull =>
    /\ outLog = <<NullChoice>>
    /\ adaptationRef.value = NullChoice
    /\ lastEmitted = NullEmitted
    /\ manifestListeners = <<>>
    /\ subs = <<>>
    /\ ~updateToken
    /\ (stack = <<>> /\ ~disposed) =>
         \A s \in Subscribers : received[s] = <<NullChoice>>

C18_Witness ==
  /\ OnlyStartNull /\ stack = <<>> /\ ~disposed
  /\ received[1] = <<NullChoice>> /\ received[2] = <<NullChoice>>
  /\ canceller = FreshCanceller(0)

\* The Adaptation Choice a committing call c is to publish
ExpectedChoice(c) ==
  [state |-> "set",
   adaptation |-> PrefAdaptation(c.pref),
   switchingMode |-> PrefSwitchingMode(c.pref),
   representations |-> c.sub,
   relativeResumingPosition |->
     IF c.op = "updateTrack" THEN PrefResumingPosition(c.pref) ELSE "undefined"]

\* C19: every Adaptation Choice published on the outward Reference is that
\* of the call which built the sub-channel it holds: the adaptation and
\* switchingMode of the call's preference, and relativeResumingPosition as
\* the preference carries it for updateTrack, undefined for start.
C19_ResumingPosition ==
  /\ \A i \in DOMAIN outLog :
       outLog[i].state = "set" =>
         \E c \in DOMAIN chain :
           /\ chain[c].sub = outLog[i].representations
           /\ chain[c].pref = subs[chain[c].sub].pref
           /\ chain[c].committed
           /\ outLog[i] = ExpectedChoice(chain[c])
  /\ ~disposed =>
       \A c \in DOMAIN chain :
         (chain[c].committed /\ chain[c].pref # NullPref) =>
           \E i \in DOMAIN outLog : outLog[i] = ExpectedChoice(chain[c])

C19_Witness ==
  /\ stack = <<>> /\ ~disposed /\ Len(chain) = 2 /\ Len(outLog) = 2
  /\ chain[1].op = "start" /\ chain[1].pref = "pA"
  /\ chain[2].op = "updateTrack" /\ chain[2].pref = "pA"
  /\ outLog[1].relativeResumingPosition = "undefined"
  /\ outLog[2].relativeResumingPosition = "10"

\* The clean-ups the sub-channels built on a signal register, in the order
\* of lines 177 and 178-181
RECURSIVE RegisteredOn(_, _)
RegisteredOn(signal, n) ==
  IF n = 0 THEN <<>>
  ELSE RegisteredOn(signal, n - 1) \o
       (IF subs[n].signal = signal
        THEN <<Cleanup("removeListeners", n), Cleanup("unlisten", n)>>
        ELSE <<>>)

\* C20: cancel() on a live signal makes it cancelled for good and runs every
\* registered clean-up once, in registration order, before it returns (the
\* listeners and subscriptions registered on the signal are gone); cancel()
\* on a cancelled signal runs no clean-up.
C20_CancelOnce ==
  \A k \in DOMAIN cancelLog :
    LET e == cancelLog[k]
    IN /\ ~e.wasCancelled =>
            /\ e.ran = e.registered
            /\ e.ran = RegisteredOn(e.signal, Len(subs))
       /\ e.wasCancelled => e.ran = <<>>
       /\ \A i, j \in DOMAIN e.ran : i # j => e.ran[i] # e.ran[j]
       /\ \A j \in DOMAIN cancelLog :
            (j > k /\ cancelLog[j].signal = e.signal) =>
              cancelLog[j].wasCancelled /\ cancelLog[j].ran = <<>>
       /\ e.signal = canceller.id =>
            canceller.isCancelled /\ canceller.cleanups = <<>>
       /\ \A i \in DOMAIN subs :
            subs[i].signal = e.signal =>
              ~HasManifestListeners(i) /\ ~HasLockSubscription(i)

C20_Witness ==
  /\ Len(cancelLog) = 2
  /\ cancelLog[1].signal = cancelLog[2].signal
  /\ ~cancelLog[1].wasCancelled
  /\ cancelLog[1].ran = <<Cleanup("removeListeners", 1), Cleanup("unlisten", 1)>>
  /\ cancelLog[2].wasCancelled /\ cancelLog[2].ran = <<>>

\* ------------------------------------------------------------------------
\* C21: a clean-up registered on a signal that is cancelled already is run
\* before register() returns: while the Dispatcher's signal is cancelled its
\* registry is empty, and a sub-channel built on it (start after dispose,
\* lines 175-181) has neither its Manifest listeners nor its lock
\* subscription left.
\* ------------------------------------------------------------------------
C21_RegisterOnCancelled ==
  canceller.isCancelled =>
    /\ canceller.cleanups = <<>>
    /\ \A i \in DOMAIN subs :
         subs[i].signal = canceller.id =>
           ~HasManifestListeners(i) /\ ~HasLockSubscription(i)

\* start(p) was called after dispose() and built a sub-channel on the
\* cancelled signal
C21_Witness ==
  /\ canceller.isCancelled /\ calledAfterDispose
  /\ chain # <<>> /\ chain[1].op = "start" /\ chain[1].sub \in DOMAIN subs
  /\ subs[chain[1].sub].signal = canceller.id
  /\ cancelLog = <<>>

\* ------------------------------------------------------------------------
\* C22: once the outward Reference is finished it has no subscriber left,
\* and no later step (a setValue made by start/updateTrack, or an onUpdate)
\* changes its value, registers a subscriber or invokes one.
\* ------------------------------------------------------------------------
C22_FinishedReference ==
  [][adaptationRef.finished =>
       /\ adaptationRef.subscribers = {}
       /\ adaptationRef' = adaptationRef
       /\ outLog' = <<>>
       /\ \A s \in Subscribers : received'[s] = <<>>]_vars

\* after finish() a subscriber called onUpdate, then updateTrack(pA) went
\* through its commit, whose setValue the finished Reference ignored
C22_Witness ==
  /\ adaptationRef.finished /\ lateOnUpdate /\ calledAfterDispose
  /\ chain # <<>> /\ chain[1].op = "updateTrack" /\ chain[1].committed
  /\ lastEmitted = SetEmitted(chain[1].pref)
  /\ adaptationRef.value # ChoiceOf(chain[1], chain[1].sub)

\* ------------------------------------------------------------------------
\* C23: the subscription to the lock Reference (lines 178-181) does not run
\* the callback when it is registered; a cancel() that removes it does not
\* run the callback of the sub-channel it removes; and a lock update runs
\* the callback of no sub-channel whose subscription was removed.
\* ------------------------------------------------------------------------
\* The recomputes run by the step
NewRecs == IF stack = <<>> THEN recLog'
           ELSE SubSeq(recLog', Len(recLog) + 1, Len(recLog'))

\* The cancel() calls made by the step
NewCancels == IF stack = <<>> THEN cancelLog'
              ELSE SubSeq(cancelLog', Len(cancelLog) + 1, Len(cancelLog'))

C23_LockSubscription ==
  [][/\ \A k \in DOMAIN NewRecs : NewRecs[k].cause # "onUpdate"
     /\ \A c \in DOMAIN NewCancels : \A j \in DOMAIN NewCancels[c].ran :
          NewCancels[c].ran[j].kind = "unlisten" =>
            /\ ~subs'[NewCancels[c].ran[j].sub].lockSub
            /\ \A k \in DOMAIN NewRecs :
                 NewRecs[k].sub # NewCancels[c].ran[j].sub
     /\ \A k \in DOMAIN NewRecs :
          NewRecs[k].cause = "lockUpdate" =>
            /\ NewRecs[k].sub \in DOMAIN subs
            /\ subs[NewRecs[k].sub].lockSub]_vars

\* a lock update reached the live sub-channel of pA while an earlier
\* sub-channel of pA, unsubscribed by updateTrack's cancel(), was left alone
C23_Witness ==
  /\ Len(recLog) = 1 /\ recLog[1].cause = "lockUpdate"
  /\ \E i \in DOMAIN subs :
       /\ i # recLog[1].sub /\ subs[i].pref = subs[recLog[1].sub].pref
       /\ ~subs[i].lockSub /\ IsStale(i)

\* ------------------------------------------------------------------------
\* C26: while no Dispatcher call is on the stack and dispose() was not
\* called, the snapshot _lastEmitted is null exactly when the outward
\* Reference holds null, and otherwise carries the adaptation and the
\* switchingMode of the value the outward Reference holds; the snapshot
\* changes only in a step that goes on to setValue on the outward
\* Reference, and it then describes the value that step publishes.
\* ------------------------------------------------------------------------
NoCallOnStack == \A k \in DOMAIN stack : stack[k].kind # "call"

SnapshotOf(v) ==
  [state |-> v.state, adaptation |-> v.adaptation,
   switchingMode |-> v.switchingMode]

SnapshotConsistent ==
  (NoCallOnStack /\ ~disposed) => lastEmitted = SnapshotOf(adaptationRef.value)

\* The values the step publishes on the outward Reference
NewOut == IF stack = <<>> THEN outLog'
          ELSE SubSeq(outLog', Len(outLog) + 1, Len(outLog'))

C26_SnapshotConsistency ==
  [][/\ SnapshotConsistent /\ SnapshotConsistent'
     /\ ~disposed' =>
          /\ lastEmitted' # lastEmitted =>
               NewOut # <<>> /\ lastEmitted' = SnapshotOf(NewOut[Len(NewOut)])
          /\ NewOut # <<>> =>
               /\ Len(NewOut) = 1
               /\ lastEmitted' = SnapshotOf(NewOut[1])
               /\ adaptationRef'.value = NewOut[1]]_vars

\* a chain of nested calls is over: the call made first committed last,
\* after a nested call had committed another adaptation
C26_Witness ==
  /\ stack = <<>> /\ ~disposed /\ Len(chain) >= 2
  /\ chain[1].committed /\ chain[1].superseded /\ chain[2].committed
  /\ chain[1].pref # NullPref /\ chain[2].pref # chain[1].pref
  /\ lastEmitted = SetEmitted(chain[1].pref)
  /\ Len(outLog) >= 2

\* ------------------------------------------------------------------------
\* C27: whenever the outward Reference holds an Adaptation Choice, the
\* Representations-Choice Reference that choice carries holds at least one
\* Representation.
\* ------------------------------------------------------------------------
C27_CarriedChoiceNonEmpty ==
  adaptationRef.value.state = "set" =>
    subs[adaptationRef.value.representations].value.representations # <<>>

\* ------------------------------------------------------------------------
\* C28: after every recompute that found at least one candidate, the
\* Representations-Choice Reference holds the switchingMode of that
\* recompute: "lazy" when the lock is null, the lock's own otherwise.
\* ------------------------------------------------------------------------
C28_SwitchingModeFreshness ==
  \A i \in DOMAIN recLog :
    recLog[i].cands # <<>> =>
      recLog[i].after.switchingMode = RepresentationsSwitchingMode(recLog[i].lock)

\* ------------------------------------------------------------------------
\* C29: every value published on a Representations-Choice Reference holds
\* exactly the candidates of the recompute that published it, each once:
\* the playable Representations of the Adaptation when the lock is null,
\* the playable Representations of the locked list otherwise.
\* ------------------------------------------------------------------------
ElementsOf(reps) == { reps[k] : k \in DOMAIN reps }

C29_CandidateSelection ==
  \A i \in DOMAIN recLog :
    recLog[i].published =>
      LET reps == recLog[i].after.representations
          wanted == { r \in ElementsOf(CandidateSource(recLog[i])) :
                        recLog[i].playable[r] }
      IN /\ ElementsOf(reps) = wanted
         /\ Len(reps) = Cardinality(wanted)

\* a lock on [r3, r2] was published as [r2] alone: r3 was not playable
\* and r4, playable, is outside the lock
C29_Witness ==
  \E i \in DOMAIN recLog :
    /\ recLog[i].published /\ recLog[i].lock.locked
    /\ recLog[i].lock.representations = <<"r3", "r2">>
    /\ recLog[i].after.representations = <<"r2">>
    /\ recLog[i].playable["r2"] /\ ~recLog[i].playable["r3"]
    /\ recLog[i].playable["r4"]

\* ------------------------------------------------------------------------
\* C30: building a sub-channel runs its recompute exactly once; afterwards
\* a Manifest event runs once the recompute of each sub-channel listening
\* to the Manifest, a lock update runs once the recompute of each
\* sub-channel subscribed to that lock, and they run nothing else: one
\* trigger makes at most one recompute, hence at most one publish and at
\* most one Dispatcher event, per sub-channel.
\* ------------------------------------------------------------------------
RunsOf(log, i) == Cardinality({ k \in DOMAIN log : log[k].sub = i })

\* Sub-channel i is notified of a trigger of that cause
ListensTo(i, cause) ==
  IF cause = "lockUpdate"
  THEN HasLockSubscription(i) /\ subs[i].pref \in LockablePrefs
  ELSE HasManifestListeners(i)

\* The step is a Manifest event or a lock update
TriggerStep == stack = <<>> /\ envSteps' = envSteps + 1

\* The cause of a trigger step, where the step shows it
TriggerCause ==
  IF playable' # playable THEN "manifestUpdate"
  ELSE IF lockRef' # lockRef THEN "lockUpdate"
  ELSE IF recLog' # <<>> THEN recLog'[1].cause
  ELSE "unknown"

\* The step is a top-level start/updateTrack with a non-null preference
ConstructStep ==
  stack = <<>> /\ chain' # <<>> /\ chain'[1].pref # NullPref

C30_RecomputeTriggers ==
  [][/\ \A i \in DOMAIN subs' : RunsOf(recLog', i) <= 1
     /\ ConstructStep =>
          /\ Len(recLog') = 1
          /\ recLog'[1].sub = chain'[1].sub /\ recLog'[1].cause = "construct"
     /\ (TriggerStep /\ TriggerCause # "unknown") =>
          /\ recLog' # <<>> <=> \E i \in DOMAIN subs : ListensTo(i, TriggerCause)
          /\ \A k \in DOMAIN recLog' :
               /\ ListensTo(recLog'[k].sub, TriggerCause)
               /\ recLog'[k].cause = "lockUpdate" <=> TriggerCause = "lockUpdate"
          /\ stack' = <<>> =>
               \A i \in DOMAIN subs :
                 RunsOf(recLog', i) = IF ListensTo(i, TriggerCause) THEN 1 ELSE 0]_vars

\* a Manifest event made every Representation of a1 unplayable: the one
\* recompute of the live sub-channel triggered one event and published
\* nothing, and the sub-channel cancelled by updateTrack was not run
C30_Witness ==
  /\ chain = <<>> /\ Len(recLog) = 1 /\ Len(subs) = 2
  /\ recLog[1].cause \in {"manifestUpdate", "decipherabilityUpdate"}
  /\ recLog[1].sub = 2 /\ recLog[1].event = "noPlayableRepresentation"
  /\ ~recLog[1].published /\ stack = <<>>

\* ------------------------------------------------------------------------
\* C31: whenever no start/updateTrack call is on the call stack, the
\* re-entrancy token _updateToken is false.
\* ------------------------------------------------------------------------
C31_TokenAtRest == NoCallOnStack => ~updateToken

\* ------------------------------------------------------------------------
\* C32: when dispose() was called by a listener of a Dispatcher event while
\* a start/updateTrack call was building its sub-channel, and the
\* Dispatcher was not called again, the interrupted call resumes without
\* writing the snapshot and without reaching its setValue, and no Manifest
\* listener and no lock subscription is left.
\* ------------------------------------------------------------------------
\* The call on top of the stack is suspended in its sub-channel construction
InterruptedByDispose ==
  /\ disposed /\ ~calledAfterDispose
  /\ stack # <<>> /\ Top(World).kind = "call" /\ Top(World).phase = "construct"

C32_ReentrantDispose ==
  [][/\ (InterruptedByDispose /\ ~calledAfterDispose') =>
          /\ lastEmitted' = lastEmitted
          /\ outLog' = outLog
          /\ \A c \in DOMAIN chain : chain'[c].committed = chain[c].committed
     /\ (disposed' /\ ~calledAfterDispose') =>
          /\ manifestListeners' = <<>>
          /\ \A i \in DOMAIN subs' : ~subs'[i].lockSub]_vars

\* ------------------------------------------------------------------------
\* C33: Adaptation.isSupported is only ever set to false, and only by a
\* recompute made with a null lock that found no playable Representation;
\* a recompute with a lock or with a candidate, and every other step of
\* start, updateTrack and dispose, leave it as it was.
\* ------------------------------------------------------------------------
C33_IsSupportedFrame ==
  [][/\ \A a \in Adaptations :
          /\ isSupported'[a] => isSupported[a]
          /\ isSupported'[a] # isSupported[a] =>
               \E k \in DOMAIN NewRecs :
                 /\ NewRecs[k].adaptation = a
                 /\ ~NewRecs[k].lock.locked /\ NewRecs[k].cands = <<>>
     /\ \A k \in DOMAIN NewRecs :
          IF ~NewRecs[k].lock.locked /\ NewRecs[k].cands = <<>>
          THEN ~NewRecs[k].supportedAfter
          ELSE NewRecs[k].supportedAfter = NewRecs[k].supportedBefore]_vars

\* isSupported of a1 was set to false by an unlocked recompute, and a later
\* recompute under a lock none of whose Representations is playable ran
C33_Witness ==
  /\ ~isSupported["a1"] /\ isSupported["a2"]
  /\ \E k \in DOMAIN recLog :
       /\ recLog[k].lock.locked /\ recLog[k].cands = <<>>
       /\ recLog[k].adaptation = "a1"
       /\ ~recLog[k].supportedBefore /\ ~recLog[k].supportedAfter

\* ------------------------------------------------------------------------
\* C34: resolveStylesInheritance terminates on every list of styles, with
\* cycles and unknown ids: the calls in progress never outnumber the
\* styles, the run makes no more steps than two per style and two per
\* extendsStyles entry given, it can go on until the loop over the styles is
\* over, and then every style's extendsStyles is empty.
\* ------------------------------------------------------------------------
RECURSIVE TotalExtends(_)
TotalExtends(sts) ==
  IF sts = <<>> THEN 0
  ELSE Len(Head(sts).extendsStyles) + TotalExtends(Tail(sts))

C34_ResolveTerminates ==
  stylesInput # <<>> =>
    /\ Len(resolveStack) <= Len(styles)
    /\ resolveSteps <= 2 * Len(stylesInput) + 2 * TotalExtends(stylesInput)
    /\ ~ResolveDone => ENABLED NextStyles
    /\ ResolveDone => \A k \in DOMAIN styles : styles[k].extendsStyles = <<>>

\* the resolution is over for s1 -> s2 -> s3 -> s1 where s2 also extends
\* an unknown id
C34_Witness ==
  /\ ResolveDone
  /\ stylesInput # <<>>
  /\ stylesInput[1].extendsStyles = <<"s2">>
  /\ stylesInput[2].extendsStyles = <<"unknown", "s3">>
  /\ stylesInput[3].extendsStyles = <<"s1">>

\* ------------------------------------------------------------------------
\* C35: once the resolution is over, each style holds for each key its own
\* value if it defined the key, otherwise the value of the first style of
\* its extendsStyles, in order, whose resolved style defines the key, and
\* no value if there is none.
\* ------------------------------------------------------------------------
\* The styles that style k was given as extended, in order (indexes; the
\* unknown ids are left out)
ExtendedIndexes(k) ==
  LET ids == stylesInput[k].extendsStyles
      known == SelectSeq(ids, LAMBDA id : StyleIndexOf(stylesInput, id) # 0)
  IN [n \in DOMAIN known |-> StyleIndexOf(stylesInput, known[n])]

\* The value style k is to hold for a key, given the resolved styles
ExpectedValue(k, key) ==
  LET own == stylesInput[k].style[key]
      ext == ExtendedIndexes(k)
      defining == { n \in DOMAIN ext : styles[ext[n]].style[key] # NoValue }
  IN IF own # NoValue THEN own
     ELSE IF defining = {} THEN NoValue
     ELSE styles[ext[Min(defining)]].style[key]

PrecedenceRespected ==
  \A k \in DOMAIN styles, key \in StyleKeys :
    styles[k].style[key] = ExpectedValue(k, key)

C35_Original_Precedence ==
  (stylesInput # <<>> /\ ResolveDone) => PrecedenceRespected

\* The styles reached from style k by following extendsStyles, in at most
\* n links
RECURSIVE ReachedFrom(_, _)
ReachedFrom(k, n) ==
  IF n = 0 THEN {}
  ELSE LET direct == { ExtendedIndexes(k)[m] : m \in DOMAIN ExtendedIndexes(k) }
       IN direct \cup UNION { ReachedFrom(d, n - 1) : d \in direct }

\* No style extends itself, directly or through other styles
AcyclicInheritance ==
  \A k \in DOMAIN stylesInput : k \notin ReachedFrom(k, Len(stylesInput))

\* C35 (amended): the same, for the lists of styles whose extendsStyles
\* references form no cycle.
C35_PrecedenceAcyclic ==
  (stylesInput # <<>> /\ ResolveDone /\ AcyclicInheritance) => PrecedenceRespected

\* s1 defines nothing and extends s2 then s3; s2 defines nothing and
\* extends s3: both end with the value of s3, s1 through s2
C35_Witness ==
  /\ stylesInput # <<>> /\ ResolveDone /\ AcyclicInheritance
  /\ stylesInput[1].extendsStyles = <<"s2", "s3">>
  /\ stylesInput[2].extendsStyles = <<"unknown", "s3">>
  /\ stylesInput[3].extendsStyles = <<>>
  /\ \A key \in StyleKeys :
       /\ stylesInput[1].style[key] = NoValue
       /\ stylesInput[2].style[key] = NoValue
       /\ styles[1].style[key] = "s3"

\* ------------------------------------------------------------------------
\* C36: inferAdaptationType returns the first type found when looking, in
\* this order, at the Adaptation's mimeType (with the roles for
\* application/mp4), at the Adaptation's codecs, then at each
\* Representation in order, its mimeType before its codecs; it returns
\* undefined only when none of them gives a type.
\* ------------------------------------------------------------------------
\* The type each source gives, in the order of verification
TypesInOrder(args) ==
  LET ofMime(m) == IF m = NoMimeType THEN UndefinedType
                   ELSE fromMimeType(m, args.adaptationRoles)
      ofCodecs(c) == IF c = NoCodecs THEN UndefinedType ELSE fromCodecs(c)
      reps == args.representations
  IN <<ofMime(args.adaptationMimeType), ofCodecs(args.adaptationCodecs)>>
     \o [n \in 1..(2 * Len(reps)) |->
          IF n % 2 = 1 THEN ofMime(reps[(n + 1) \div 2].mimeType)
          ELSE ofCodecs(reps[n \div 2].codecs)]

====
